---- MODULE Spec2Model ----
(***************************************************************************)
(* Model of IAMRolesAnywhere/pipeline-deploy.py: the static resource-type  *)
(* to IAM-permission table and analyze_template_content_and_create_role,   *)
(* which parses a CloudFormation template, derives the permission set of   *)
(* the execution role and creates that role through the IAM client.        *)
(***************************************************************************)
EXTENDS Naturals, Sequences, FiniteSets

(***************************************************************************)
(* Bounds of the model.                                                    *)
(***************************************************************************)
\* The largest number of entries of a template's Resources mapping.
MaxResources == 2

(***************************************************************************)
(* The static tables (module-level literals of the script).                *)
(***************************************************************************)
CFN_RESOURCE_TO_IAM_MAPPING ==
  [t \in {"AWS::S3::Bucket", "AWS::Lambda::Function", "AWS::IAM::Role",
          "AWS::IAM::ManagedPolicy", "AWS::DynamoDB::Table", "AWS::EC2::Instance",
          "AWS::SNS::Topic", "AWS::SQS::Queue", "AWS::ACMPCA::CertificateAuthority",
          "AWS::ACMPCA::Certificate", "AWS::ACMPCA::CertificateAuthorityActivation",
          "AWS::RolesAnywhere::TrustAnchor", "AWS::RolesAnywhere::Profile"} |->
    CASE t = "AWS::S3::Bucket" ->
           <<"s3:CreateBucket", "s3:DeleteBucket", "s3:PutBucketPolicy",
             "s3:DeleteBucketPolicy", "s3:PutEncryptionConfiguration",
             "s3:GetEncryptionConfiguration", "s3:ListBucket", "s3:GetObject",
             "s3:PutObject", "s3:DeleteObject">>
      [] t = "AWS::Lambda::Function" ->
           <<"lambda:CreateFunction", "lambda:DeleteFunction", "lambda:GetFunction",
             "lambda:GetFunctionConfiguration", "lambda:UpdateFunctionCode",
             "lambda:UpdateFunctionConfiguration", "lambda:AddPermission",
             "lambda:RemovePermission">>
      [] t = "AWS::IAM::Role" ->
           <<"iam:CreateRole", "iam:DeleteRole", "iam:GetRole", "iam:PassRole",
             "iam:PutRolePolicy", "iam:DeleteRolePolicy", "iam:AttachRolePolicy",
             "iam:DetachRolePolicy", "iam:UpdateRole", "iam:UpdateAssumeRolePolicy">>
      [] t = "AWS::IAM::ManagedPolicy" ->
           <<"iam:CreatePolicy", "iam:DeletePolicy", "iam:GetPolicy",
             "iam:GetPolicyVersion", "iam:CreatePolicyVersion",
             "iam:DeletePolicyVersion", "iam:SetDefaultPolicyVersion">>
      [] t = "AWS::DynamoDB::Table" ->
           <<"dynamodb:CreateTable", "dynamodb:DeleteTable", "dynamodb:DescribeTable",
             "dynamodb:UpdateTable">>
      [] t = "AWS::EC2::Instance" ->
           <<"ec2:RunInstances", "ec2:TerminateInstances", "ec2:DescribeInstances",
             "ec2:CreateTags">>
      [] t = "AWS::SNS::Topic" ->
           <<"sns:CreateTopic", "sns:DeleteTopic", "sns:GetTopicAttributes",
             "sns:SetTopicAttributes">>
      [] t = "AWS::SQS::Queue" ->
           <<"sqs:CreateQueue", "sqs:DeleteQueue", "sqs:GetQueueAttributes",
             "sqs:SetQueueAttributes">>
      [] t = "AWS::ACMPCA::CertificateAuthority" ->
           <<"acm-pca:CreateCertificateAuthority", "acm-pca:DeleteCertificateAuthority",
             "acm-pca:DescribeCertificateAuthority", "acm-pca:UpdateCertificateAuthority",
             "acm-pca:GetCertificateAuthorityCertificate",
             "acm-pca:GetCertificateAuthorityCsr", "acm-pca:TagResource">>
      [] t = "AWS::ACMPCA::Certificate" ->
           <<"acm-pca:IssueCertificate", "acm-pca:GetCertificate",
             "acm-pca:RevokeCertificate">>
      [] t = "AWS::ACMPCA::CertificateAuthorityActivation" ->
           <<"acm-pca:ImportCertificateAuthorityCertificate",
             "acm-pca:UpdateCertificateAuthority">>
      [] t = "AWS::RolesAnywhere::TrustAnchor" ->
           <<"rolesanywhere:CreateTrustAnchor", "rolesanywhere:DeleteTrustAnchor",
             "rolesanywhere:GetTrustAnchor", "rolesanywhere:UpdateTrustAnchor",
             "rolesanywhere:TagResource">>
      [] t = "AWS::RolesAnywhere::Profile" ->
           <<"rolesanywhere:CreateProfile", "rolesanywhere:DeleteProfile",
             "rolesanywhere:GetProfile", "rolesanywhere:UpdateProfile",
             "rolesanywhere:TagResource">>]

CLOUDFORMATION_PERMISSIONS ==
  <<"cloudformation:CreateStack", "cloudformation:DeleteStack",
    "cloudformation:DescribeStacks", "cloudformation:UpdateStack",
    "cloudformation:ValidateTemplate", "cloudformation:GetTemplate",
    "cloudformation:GetTemplateSummary">>

PIPELINE_PERMISSIONS ==
  <<"codepipeline:CreatePipeline", "codepipeline:DeletePipeline",
    "codepipeline:GetPipeline", "codepipeline:GetPipelineState",
    "codepipeline:StartPipelineExecution", "codepipeline:TagResource",
    "codestar-connections:UseConnection",
    "s3:CreateBucket", "s3:DeleteBucket", "s3:GetObject", "s3:PutObject",
    "s3:DeleteObject">>

(***************************************************************************)
(* Python built-ins used by the function.                                  *)
(***************************************************************************)
\* set(list): the elements of a list.
SetOf(list) == {list[i] : i \in DOMAIN list}

\* The order of str under Python's < (code points), for every permission string
\* of the tables: p sorts before q iff p stands before q here.
StrOrder ==
  <<"acm-pca:CreateCertificateAuthority", "acm-pca:DeleteCertificateAuthority",
    "acm-pca:DescribeCertificateAuthority", "acm-pca:GetCertificate",
    "acm-pca:GetCertificateAuthorityCertificate", "acm-pca:GetCertificateAuthorityCsr",
    "acm-pca:ImportCertificateAuthorityCertificate", "acm-pca:IssueCertificate",
    "acm-pca:RevokeCertificate", "acm-pca:TagResource",
    "acm-pca:UpdateCertificateAuthority", "cloudformation:CreateStack",
    "cloudformation:DeleteStack", "cloudformation:DescribeStacks",
    "cloudformation:GetTemplate", "cloudformation:GetTemplateSummary",
    "cloudformation:UpdateStack", "cloudformation:ValidateTemplate",
    "codepipeline:CreatePipeline", "codepipeline:DeletePipeline",
    "codepipeline:GetPipeline", "codepipeline:GetPipelineState",
    "codepipeline:StartPipelineExecution", "codepipeline:TagResource",
    "codestar-connections:UseConnection", "dynamodb:CreateTable",
    "dynamodb:DeleteTable", "dynamodb:DescribeTable", "dynamodb:UpdateTable",
    "ec2:CreateTags", "ec2:DescribeInstances", "ec2:RunInstances",
    "ec2:TerminateInstances", "iam:AttachRolePolicy", "iam:CreatePolicy",
    "iam:CreatePolicyVersion", "iam:CreateRole", "iam:DeletePolicy",
    "iam:DeletePolicyVersion", "iam:DeleteRole", "iam:DeleteRolePolicy",
    "iam:DetachRolePolicy", "iam:GetPolicy", "iam:GetPolicyVersion", "iam:GetRole",
    "iam:PassRole", "iam:PutRolePolicy", "iam:SetDefaultPolicyVersion",
    "iam:UpdateAssumeRolePolicy", "iam:UpdateRole", "lambda:AddPermission",
    "lambda:CreateFunction", "lambda:DeleteFunction", "lambda:GetFunction",
    "lambda:GetFunctionConfiguration", "lambda:RemovePermission",
    "lambda:UpdateFunctionCode", "lambda:UpdateFunctionConfiguration",
    "rolesanywhere:CreateProfile", "rolesanywhere:CreateTrustAnchor",
    "rolesanywhere:DeleteProfile", "rolesanywhere:DeleteTrustAnchor",
    "rolesanywhere:GetProfile", "rolesanywhere:GetTrustAnchor",
    "rolesanywhere:TagResource", "rolesanywhere:UpdateProfile",
    "rolesanywhere:UpdateTrustAnchor", "s3:CreateBucket", "s3:DeleteBucket",
    "s3:DeleteBucketPolicy", "s3:DeleteObject", "s3:GetEncryptionConfiguration",
    "s3:GetObject", "s3:ListBucket", "s3:PutBucketPolicy",
    "s3:PutEncryptionConfiguration", "s3:PutObject", "sns:CreateTopic",
    "sns:DeleteTopic", "sns:GetTopicAttributes", "sns:SetTopicAttributes",
    "sqs:CreateQueue", "sqs:DeleteQueue", "sqs:GetQueueAttributes",
    "sqs:SetQueueAttributes">>

\* Sorted without the sort: the strings in some other order.
Sorted_Unsorted(s) ==
  LET a == SelectSeq(StrOrder, LAMBDA p : p \in s)
  IN  [i \in 1..Len(a) |-> a[Len(a) + 1 - i]]

\* sorted(s) of a set of permission strings: ascending under StrOrder.
Sorted(s) == SelectSeq(StrOrder, LAMBDA p : p \in s)

Reverse(q) == [i \in 1..Len(q) |-> q[Len(q) + 1 - i]]

\* The iteration orders of a set that the model distinguishes.  The order in
\* which list(s) walks a set of str follows the strings' hashes, which change
\* from one interpreter run to the next: it is not an order the program fixes.
HashOrders == {"ascending", "descending", "rotated"}

\* list(s) of a set, under one of the iteration orders.
ListOf(s, order) ==
  LET a == Sorted(s)
  IN  CASE order = "ascending"  -> a
        [] order = "descending" -> Reverse(a)
        [] order = "rotated"    -> IF a = <<>> THEN a ELSE Tail(a) \o <<Head(a)>>

(***************************************************************************)
(* Template documents: the Python values json.loads / yaml.safe_load give.  *)
(***************************************************************************)
\* What resource_def.get('Type') finds in a resource record: a type string,
\* nothing (no Type key, or None), a falsy value ("") or a value that is true
\* but is no str (a number).
NoType == "<none>"
EmptyType == ""
NumberType == "<number>"

\* The type strings the templates of the model declare: types that are keys of
\* the table (one whose permissions overlap the pipeline baseline, one whose
\* permissions do not) and a type that is not.
KnownInputTypes == {"AWS::S3::Bucket", "AWS::Lambda::Function"}
UnknownInputTypes == {"AWS::EC2::VPC"}
TypeStrings == KnownInputTypes \cup UnknownInputTypes

\* One entry of Resources: a record (a dict) with its Type, or a value that is
\* no dict (a string, a list, None).
ResourceDefs ==
  {[kind |-> "record", Type |-> t] :
      t \in TypeStrings \cup {NoType, EmptyType, NumberType}}
  \cup {[kind |-> "nonrecord", Type |-> NoType]}

\* Resources as the sequence of its values in the mapping's order (the keys,
\* the resource names, are distinct and are not read).
ResourceLists == UNION {[1..n -> ResourceDefs] : n \in 0..MaxResources}

\* A parsed document: a mapping whose Resources key is absent, holds a mapping
\* of resources, or holds something that is no mapping; or a value that is no
\* mapping at all.
Documents ==
  {[kind |-> "mapping", resources |-> "mapping", items |-> r] : r \in ResourceLists}
  \cup {[kind |-> "mapping", resources |-> "absent", items |-> <<>>],
        [kind |-> "mapping", resources |-> "nonmapping", items |-> <<>>],
        [kind |-> "scalar", resources |-> "absent", items |-> <<>>]}

\* What a parser does with a text: it returns a document or raises its error.
Raises == [ok |-> FALSE, value |-> [kind |-> "scalar", resources |-> "absent", items |-> <<>>]]
Returns(doc) == [ok |-> TRUE, value |-> doc]

\* A template text, given by what each of the two parsers makes of it.  A text
\* that is JSON is drawn both with a YAML reading equal to the JSON one and with
\* none; a text that is not JSON is YAML or is neither.
TemplateContents ==
  {[json |-> Returns(d), yaml |-> Returns(d)] : d \in Documents}
  \cup {[json |-> Returns(d), yaml |-> Raises] : d \in Documents}
  \cup {[json |-> Raises, yaml |-> Returns(d)] : d \in Documents}
  \cup {[json |-> Raises, yaml |-> Raises]}

RoleNames == {"CloudFormation-a", "CloudFormation-b"}

(***************************************************************************)
(* State.                                                                  *)
(***************************************************************************)
VARIABLES
  globals,             \* the module-level objects: mapping, cloudformation, pipeline
  iam_roles,           \* the IAM service: role name -> the role, if it exists
  phase,               \* "start", "once", "twice": the calls made so far
  template_content,    \* argument of the last call
  role_name,           \* argument of the last call
  resource_types,      \* local of the last call: [bound, val]
  needed_permissions,  \* local of the last call: [bound, val]
  stdout,              \* what the last call wrote, in order
  parser_calls,        \* the parsers the last call invoked, in order
  iam_calls,           \* the IAM client methods the last call invoked, in order
  returned,            \* what the last call returned
  previous             \* template_content and needed_permissions of the call before

\* main(), from the creation of the pipeline role on.
VARIABLES
  pc,                  \* where main stands; "idle" when main does not run
  iam_attached,        \* the IAM service: role name -> managed policies attached
  pipeline_role_arn,   \* local of main
  cf_role_name,        \* local of main
  cf_role_arn,         \* local of main
  role_type,           \* local of main: the answer to the role-type prompt
  template_text,       \* local of main: template_content
  create_admin_role,   \* local of main: the lowercased answer to the fallback prompt
  fallback_answer,     \* the answer to the fallback prompt as typed
  capabilities,        \* local of main
  main_calls,          \* the functions and client methods main called, in order
  pipeline             \* the CodePipeline service: the pipeline, if created

mainvars == <<pc, iam_attached, pipeline_role_arn, cf_role_name, cf_role_arn, role_type,
              template_text, create_admin_role, fallback_answer, capabilities,
              main_calls, pipeline>>

vars == <<globals, iam_roles, phase, template_content, role_name, resource_types,
          needed_permissions, stdout, parser_calls, iam_calls, returned, previous,
          mainvars>>

(***************************************************************************)
(* Values of the function's result and locals.                             *)
(***************************************************************************)
None == [kind |-> "None", role |-> ""]
\* response['Role']['Arn'] of a created role.
RoleArn(name) == [kind |-> "Arn", role |-> name]

Unbound == [bound |-> FALSE, val |-> {}]
Bound(v) == [bound |-> TRUE, val |-> v]

\* One line of output: its fixed text, and the values formatted into it, as a
\* set where the code joins a set in its iteration order and as a list where it
\* joins a list.
Line(msg, items, list) == [msg |-> msg, items |-> items, list |-> list]

NoRole == [exists |-> FALSE, trust |-> {}, policies |-> {}]

(***************************************************************************)
(* analyze_template_content_and_create_role, step by step.                 *)
(***************************************************************************)
\* ParseTemplate with the two parsers tried in the other order.
ParseTemplate_YamlFirst(content) ==
  IF content.yaml.ok
  THEN [raised |-> FALSE, template |-> content.yaml.value,
        calls |-> <<"yaml.safe_load">>]
  ELSE IF content.json.ok
  THEN [raised |-> FALSE, template |-> content.json.value,
        calls |-> <<"yaml.safe_load", "json.loads">>]
  ELSE [raised |-> TRUE, template |-> content.json.value,
        calls |-> <<"yaml.safe_load", "json.loads">>]

\* Lines 165-172: json.loads first; yaml.safe_load when it raises
\* JSONDecodeError; the YAMLError of the second ends the call.
ParseTemplate(content) ==
  IF content.json.ok
  THEN [raised |-> FALSE, template |-> content.json.value,
        calls |-> <<"json.loads">>]
  ELSE IF content.yaml.ok
  THEN [raised |-> FALSE, template |-> content.yaml.value,
        calls |-> <<"json.loads", "yaml.safe_load">>]
  ELSE [raised |-> TRUE, template |-> content.yaml.value,
        calls |-> <<"json.loads", "yaml.safe_load">>]

\* GetResources that takes whatever has no Resources mapping for an empty one.
GetResources_Lenient(template) ==
  IF template.kind = "mapping" /\ template.resources = "mapping"
  THEN [raised |-> FALSE, items |-> template.items]
  ELSE [raised |-> FALSE, items |-> <<>>]

\* Line 175: template.get('Resources', {}) followed by .items() at line 178.
\* Either raises AttributeError on a value without that method.
GetResources(template) ==
  IF template.kind # "mapping" \/ template.resources = "nonmapping"
  THEN [raised |-> TRUE, items |-> <<>>]
  ELSE IF template.resources = "absent" THEN [raised |-> FALSE, items |-> <<>>]
  ELSE [raised |-> FALSE, items |-> template.items]

\* Truthy as "is not None": an empty Type string would count as a type.
Truthy_NotNone(t) == t # NoType

\* Line 180: if resource_type.
Truthy(t) == t \notin {NoType, EmptyType}

\* The loop with assignment in place of add: each type replaces the set.
RECURSIVE CollectResourceTypes_Overwrite(_, _, _)
CollectResourceTypes_Overwrite(items, i, acc) ==
  IF i > Len(items) THEN [raised |-> FALSE, types |-> acc]
  ELSE IF items[i].kind # "record" THEN [raised |-> TRUE, types |-> acc]
  ELSE CollectResourceTypes_Overwrite(items, i + 1,
         IF Truthy(items[i].Type) THEN {items[i].Type} ELSE acc)

\* The loop with a type seen twice taken out again.
RECURSIVE CollectResourceTypes_Toggle(_, _, _)
CollectResourceTypes_Toggle(items, i, acc) ==
  IF i > Len(items) THEN [raised |-> FALSE, types |-> acc]
  ELSE IF items[i].kind # "record" THEN [raised |-> TRUE, types |-> acc]
  ELSE CollectResourceTypes_Toggle(items, i + 1,
         IF ~Truthy(items[i].Type) THEN acc
         ELSE IF items[i].Type \in acc THEN acc \ {items[i].Type}
         ELSE acc \cup {items[i].Type})

\* Lines 176-181: the loop over resources.items(), from entry i on, with the
\* set built so far.  resource_def.get raises AttributeError on an entry that
\* is no dict.
RECURSIVE CollectResourceTypes(_, _, _)
CollectResourceTypes(items, i, acc) ==
  IF i > Len(items) THEN [raised |-> FALSE, types |-> acc]
  ELSE IF items[i].kind # "record" THEN [raised |-> TRUE, types |-> acc]
  ELSE CollectResourceTypes(items, i + 1,
         IF Truthy(items[i].Type) THEN acc \cup {items[i].Type} ELSE acc)

\* A join that formats every element with str() and never raises.
JoinRaises_Never(types) == FALSE

\* Line 184: ', '.join(resource_types) raises TypeError on an element that is
\* no str.
JoinRaises(types) == NumberType \in types

\* BaselinePermissions without the update of line 191.
BaselinePermissions_NoPipeline(g) == SetOf(g.cloudformation)

\* Lines 190-191: set(CLOUDFORMATION_PERMISSIONS), then update(PIPELINE_PERMISSIONS).
BaselinePermissions(g) == SetOf(g.cloudformation) \cup SetOf(g.pipeline)

\* MappedPermissions with assignment in place of update: one type's list
\* replaces the others'.
MappedPermissions_Assign(types, g) ==
  IF types \cap DOMAIN g.mapping = {} THEN {}
  ELSE SetOf(g.mapping[CHOOSE t \in types \cap DOMAIN g.mapping : TRUE])

\* Lines 193-195: update with the table's list of every type that is a key.
MappedPermissions(types, g) ==
  UNION {SetOf(g.mapping[t]) : t \in types \cap DOMAIN g.mapping}

\* No warning: the else branch of lines 196-197 left out.
UnmappedTypes_Silent(types, g) == {}

\* Lines 196-197: the types the warning is written for.
UnmappedTypes(types, g) == {t \in types : t \notin DOMAIN g.mapping}

\* Lines 189-195.
NeededPermissions(types, g) == BaselinePermissions(g) \cup MappedPermissions(types, g)

\* A lookup that takes the entry out of the table (pop in place of []).
GlobalsAfter_Popped(g, types) ==
  [g EXCEPT !.mapping = [t \in DOMAIN g.mapping \ types |-> g.mapping[t]]]

\* Lines 190-195 build a new set and update only that set: the module-level
\* lists and table are the same objects, with the same elements, afterwards.
GlobalsAfter(g, types) == g

\* Lines 203-217.
TrustPolicy ==
  [Version |-> "2012-10-17",
   Statement |-> <<[Effect |-> "Allow",
                    Principal |-> {"cloudformation.amazonaws.com",
                                   "codepipeline.amazonaws.com"},
                    Action |-> "sts:AssumeRole"]>>]

\* Lines 227-236: the Action list is list(needed_permissions).
PermissionPolicy(needed, order) ==
  [Version |-> "2012-10-17",
   Statement |-> <<[Effect |-> "Allow",
                    Action |-> ListOf(needed, order),
                    Resource |-> "*"]>>]

\* The policy named like the role itself.
PolicyName_Bare(name) == name

\* Line 239.
PolicyName(name) == name \o "Policy"

(***************************************************************************)
(* The IAM client (boto3), as far as the function uses it.                  *)
(***************************************************************************)
\* What one invocation meets outside the program: the IAM call the service
\* refuses for a reason of its own (access denied, throttling), if any, and the
\* order in which list() walks the set when the call gets that far.
Environments ==
  {[fault |-> f, order |-> "ascending"] : f \in {"create_role", "put_role_policy"}}
  \cup {[fault |-> "none", order |-> o] : o \in HashOrders}

\* iam_client.create_role: ClientError when the service refuses or a role of
\* that name exists (EntityAlreadyExists); otherwise the role exists afterwards.
CreateRoleRaises(roles, name, env) == env.fault = "create_role" \/ roles[name].exists

\* iam_client.put_role_policy: ClientError when the service refuses.
PutRolePolicyRaises(env) == env.fault = "put_role_policy"

CreateRole(roles, name, trust) ==
  [roles EXCEPT ![name] = [exists |-> TRUE, trust |-> trust, policies |-> {}]]

\* iam_client.put_role_policy: adds or replaces the inline policy of that name.
PutRolePolicy(roles, name, policy, document) ==
  [roles EXCEPT ![name].policies =
     {q \in @ : q.PolicyName # policy}
     \cup {[PolicyName |-> policy, PolicyDocument |-> document]}]

ApiCall(api, name, ok) == [api |-> api, RoleName |-> name, ok |-> ok]

(***************************************************************************)
(* The whole call: every value it leaves behind.                           *)
(***************************************************************************)
Outcome(ret, out, types, needed, calls, roles, g) ==
  [returned |-> ret, stdout |-> out, resource_types |-> types,
   needed_permissions |-> needed, iam_calls |-> calls, iam_roles |-> roles,
   globals |-> g]

\* Lines 219-253: the role and its inline policy.
CreateExecutionRole(out, types, needed, name, env, roles, g) ==
  IF CreateRoleRaises(roles, name, env)
  THEN Outcome(None,
               out \o <<Line("Error creating execution role", {}, <<>>)>>,
               Bound(types), Bound(needed),
               <<ApiCall("create_role", name, FALSE)>>, roles, g)
  ELSE LET created == CreateRole(roles, name, TrustPolicy)
       IN  IF PutRolePolicyRaises(env)
           THEN Outcome(None,
                        out \o <<Line("Error creating execution role", {}, <<>>)>>,
                        Bound(types), Bound(needed),
                        <<ApiCall("create_role", name, TRUE),
                          ApiCall("put_role_policy", name, FALSE)>>, created, g)
           ELSE Outcome(RoleArn(name),
                        out \o <<Line("Created execution role with scoped permissions",
                                      {name}, <<>>),
                                 Line("Attached policy with needed permissions",
                                      {PolicyName(name)}, <<>>)>>,
                        Bound(types), Bound(needed),
                        <<ApiCall("create_role", name, TRUE),
                          ApiCall("put_role_policy", name, TRUE)>>,
                        PutRolePolicy(created, name, PolicyName(name),
                                      PermissionPolicy(needed, env.order)), g)

\* Lines 189-199, then the role.
MapAndCreate(out, types, name, env, roles, g) ==
  LET needed == NeededPermissions(types, g)
      after == GlobalsAfter(g, types)
      unmapped == UnmappedTypes(types, g)
      warned == IF unmapped = {} THEN out
                ELSE out \o <<Line("Warning: No permission mapping for resource type",
                                   unmapped, <<>>)>>
      listed == warned \o <<Line("Required permissions", {}, Sorted(needed))>>
  IN  CreateExecutionRole(listed, types, needed, name, env, roles, after)

\* Lines 161-257.
AnalyzeOutcome(content, name, env, roles, g) ==
  LET out0 == <<Line("Analyzing CloudFormation template content", {}, <<>>)>>
      failed == <<Line("Error analyzing template", {}, <<>>)>>
      parsed == ParseTemplate(content)
      res == GetResources(parsed.template)
      coll == CollectResourceTypes(res.items, 1, {})
  IN  IF parsed.raised
      THEN Outcome(None, out0 \o <<Line("Error parsing template content", {}, <<>>)>>,
                   Unbound, Unbound, <<>>, roles, g)
      ELSE IF res.raised
      THEN Outcome(None, out0 \o failed, Unbound, Unbound, <<>>, roles, g)
      ELSE IF coll.raised
      THEN Outcome(None, out0 \o failed, Bound(coll.types), Unbound, <<>>, roles, g)
      ELSE IF coll.types = {}
      THEN Outcome(None, out0 \o <<Line("No resources found in template.", {}, <<>>)>>,
                   Bound(coll.types), Unbound, <<>>, roles, g)
      ELSE IF JoinRaises(coll.types)
      THEN Outcome(None, out0 \o failed, Bound(coll.types), Unbound, <<>>, roles, g)
      ELSE MapAndCreate(out0 \o <<Line("Found resource types", coll.types, <<>>)>>,
                        coll.types, name, env, roles, g)

(***************************************************************************)
(* Calls of the function.                                                  *)
(***************************************************************************)
\* One call of analyze_template_content_and_create_role(template_content,
\* role_name, iam_client, account_id), from entry to return.
analyze_template_content_and_create_role(content, name, env) ==
  \E o \in {AnalyzeOutcome(content, name, env, iam_roles, globals)} :
      /\ template_content' = content
      /\ role_name' = name
      /\ returned' = o.returned
      /\ stdout' = o.stdout
      /\ parser_calls' = ParseTemplate(content).calls
      /\ resource_types' = o.resource_types
      /\ needed_permissions' = o.needed_permissions
      /\ iam_calls' = o.iam_calls
      /\ iam_roles' = o.iam_roles
      /\ globals' = o.globals

\* The templates that declare the resources of content in another order, or
\* with one declaration written twice or one of two equal declarations dropped,
\* and content itself.
Injections(n) == {p \in [1..n -> 1..n] : \A i, j \in 1..n : p[i] = p[j] => i = j}

Rearranged(items) ==
  {[i \in 1..Len(items) |-> items[p[i]]] : p \in Injections(Len(items))}
  \cup {Append(items, items[i]) : i \in {j \in 1..Len(items) : Len(items) < MaxResources}}
  \cup {SubSeq(items, 1, i - 1) \o SubSeq(items, i + 1, Len(items)) :
          i \in {j \in 1..Len(items) : \E k \in 1..Len(items) : k # j /\ items[k] = items[j]}}

WithItems(parse, items) ==
  IF parse.ok /\ parse.value.resources = "mapping"
  THEN Returns([parse.value EXCEPT !.items = items])
  ELSE parse

EffectiveParse(content) == IF content.json.ok THEN content.json ELSE content.yaml

RelatedContents(content) ==
  {[json |-> WithItems(content.json, r), yaml |-> WithItems(content.yaml, r)] :
      r \in Rearranged(EffectiveParse(content).value.items)}

\* The values of main's variables before main has asked or called anything.
NoTemplate == [kind |-> "None", content |-> [json |-> Raises, yaml |-> Raises]]
NoPipeline == [exists |-> FALSE, roleArn |-> None, RoleArn |-> None,
               Capabilities |-> <<>>, started |-> FALSE]

MainLocalsUnset ==
  /\ pipeline_role_arn = None
  /\ cf_role_name = ""
  /\ cf_role_arn = None
  /\ role_type = ""
  /\ template_text = NoTemplate
  /\ create_admin_role = ""
  /\ fallback_answer = ""
  /\ capabilities = <<>>
  /\ main_calls = <<>>
  /\ pipeline = NoPipeline

Init ==
  /\ pc = "idle"
  /\ iam_attached = [n \in RoleNames |-> {}]
  /\ MainLocalsUnset
  /\ globals = [mapping |-> CFN_RESOURCE_TO_IAM_MAPPING,
                cloudformation |-> CLOUDFORMATION_PERMISSIONS,
                pipeline |-> PIPELINE_PERMISSIONS]
  /\ iam_roles = [n \in RoleNames |-> NoRole]
  /\ phase = "start"
  /\ template_content = [json |-> Raises, yaml |-> Raises]
  /\ role_name = ""
  /\ resource_types = Unbound
  /\ needed_permissions = Unbound
  /\ stdout = <<>>
  /\ parser_calls = <<>>
  /\ iam_calls = <<>>
  /\ returned = None
  /\ previous = [template_content |-> [json |-> Raises, yaml |-> Raises],
                 needed_permissions |-> Unbound]

\* The first call of a run, on any template.
Analyze ==
  /\ phase = "start"
  /\ \E content \in TemplateContents, name \in RoleNames, env \in Environments :
       analyze_template_content_and_create_role(content, name, env)
  /\ phase' = "once"
  /\ UNCHANGED previous
  /\ UNCHANGED mainvars

\* A second call in the same run, on the same template or a rearrangement of it.
AnalyzeAgain ==
  /\ phase = "once"
  /\ \E content \in RelatedContents(template_content), name \in RoleNames,
        env \in Environments :
       analyze_template_content_and_create_role(content, name, env)
  /\ phase' = "twice"
  /\ previous' = [template_content |-> template_content,
                  needed_permissions |-> needed_permissions]
  /\ UNCHANGED mainvars

Next == Analyze \/ AnalyzeAgain

Spec == Init /\ [][Next]_vars

(***************************************************************************)
(* main(): the roles.                                                      *)
(***************************************************************************)
\* str.lower() on the answers the model types.
Lower(s) == CASE s = "Y" -> "y" [] s = "N" -> "n" [] OTHER -> s

\* What the operator may type at a y/n prompt.
Answers == {"y", "Y", "n", ""}

\* Line 538: the name of the pipeline role; lines 548: the names of the
\* execution role are RoleNames.  Both end in a fresh uuid4 prefix.
PipelineRoleName == "CodePipeline-a"
MainRoleNames == RoleNames \cup {PipelineRoleName}

\* Lines 265-276.
PipelineTrustPolicy ==
  [Version |-> "2012-10-17",
   Statement |-> <<[Effect |-> "Allow",
                    Principal |-> {"codepipeline.amazonaws.com"},
                    Action |-> "sts:AssumeRole"]>>]

\* Lines 286-338; the account id in the first Resource is left open.
PipelinePolicy ==
  [Version |-> "2012-10-17",
   Statement |->
     <<[Effect |-> "Allow",
        Action |-> <<"cloudformation:CreateStack", "cloudformation:DeleteStack",
                     "cloudformation:DescribeStacks", "cloudformation:UpdateStack",
                     "cloudformation:CreateChangeSet", "cloudformation:DeleteChangeSet",
                     "cloudformation:DescribeChangeSet",
                     "cloudformation:ExecuteChangeSet", "cloudformation:SetStackPolicy",
                     "cloudformation:ValidateTemplate">>,
        Resource |-> "arn:aws:cloudformation:*:{account_id}:stack/*"],
       [Effect |-> "Allow", Action |-> <<"iam:PassRole">>, Resource |-> "*",
        Condition |-> [StringEqualsIfExists |->
                         [PassedToService |-> {"cloudformation.amazonaws.com",
                                               "elasticbeanstalk.amazonaws.com"}]]],
       [Effect |-> "Allow", Action |-> <<"codestar-connections:UseConnection">>,
        Resource |-> "*"],
       [Effect |-> "Allow",
        Action |-> <<"s3:GetObject", "s3:GetObjectVersion", "s3:GetBucketVersioning",
                     "s3:PutObject">>,
        Resource |-> "*"]>>]

\* Lines 360-371.
CloudFormationTrustPolicy ==
  [Version |-> "2012-10-17",
   Statement |-> <<[Effect |-> "Allow",
                    Principal |-> {"cloudformation.amazonaws.com"},
                    Action |-> "sts:AssumeRole"]>>]

\* Line 383.
AdministratorAccess == "arn:aws:iam::aws:policy/AdministratorAccess"

\* The IAM call of a role-creating function that the service refuses, if any.
RoleFaults == {"none", "create_role", "second_call"}

\* create_pipeline_role (lines 260-352): create_role, put_role_policy, return
\* the ARN; a ClientError of either ends the program with sys.exit(1).
PipelineRoleOutcome(name, fault, roles) ==
  IF fault = "create_role" \/ roles[name].exists
  THEN [exits |-> TRUE, roles |-> roles, arn |-> None]
  ELSE IF fault = "second_call"
  THEN [exits |-> TRUE, roles |-> CreateRole(roles, name, PipelineTrustPolicy),
        arn |-> None]
  ELSE [exits |-> FALSE,
        roles |-> PutRolePolicy(CreateRole(roles, name, PipelineTrustPolicy), name,
                                name \o "Policy", PipelinePolicy),
        arn |-> RoleArn(name)]

\* create_cloudformation_role (lines 355-391): create_role, attach_role_policy
\* of AdministratorAccess, return the ARN; a ClientError of either ends the
\* program with sys.exit(1).
CloudFormationRoleOutcome(name, fault, roles, attached) ==
  IF fault = "create_role" \/ roles[name].exists
  THEN [exits |-> TRUE, roles |-> roles, attached |-> attached, arn |-> None]
  ELSE IF fault = "second_call"
  THEN [exits |-> TRUE, roles |-> CreateRole(roles, name, CloudFormationTrustPolicy),
        attached |-> attached, arn |-> None]
  ELSE [exits |-> FALSE,
        roles |-> CreateRole(roles, name, CloudFormationTrustPolicy),
        attached |-> [attached EXCEPT ![name] = @ \cup {AdministratorAccess}],
        arn |-> RoleArn(name)]

\* One entry of main_calls.
MainCall(fn, arg) == [fn |-> fn, arg |-> arg]

\* The call of create_cloudformation_role in main (lines 552 and 586): the
\* role, cf_role_arn, and where main goes on.
create_cloudformation_role(name) ==
  \E fault \in RoleFaults :
    \E o \in {CloudFormationRoleOutcome(name, fault, iam_roles, iam_attached)} :
      /\ iam_roles' = o.roles
      /\ iam_attached' = o.attached
      /\ cf_role_arn' = o.arn
      /\ main_calls' = Append(main_calls,
                              MainCall("create_cloudformation_role", RoleArn(name)))
      /\ pc' = IF o.exits THEN "exit(1)" ELSE "capabilities"

\* The variables of a call of analyze_template_content_and_create_role.
callvars == <<globals, template_content, role_name, resource_types,
              needed_permissions, stdout, parser_calls, iam_calls, returned>>

\* Python's truth of a str or None.
TruthyText(t) == t.kind = "text"
TruthyArn(a) == a.kind = "Arn" \/ (a.kind = "Input" /\ a.role # "")

(***************************************************************************)
(* main(): its steps.                                                      *)
(***************************************************************************)
\* What becomes of the program before the roles: no profile argument, a
\* ClientError of list_connections, no connection, or everything answered.
Startups == {"usage", "client_error", "no_connections", "ok"}

\* Lines 460-535.
MainStart ==
  /\ pc = "start"
  /\ \E startup \in Startups :
       pc' = IF startup = "ok" THEN "create_pipeline_role" ELSE "exit(1)"
  /\ UNCHANGED <<callvars, iam_roles, phase, previous, iam_attached, pipeline_role_arn,
                 cf_role_name, cf_role_arn, role_type, template_text, create_admin_role,
                 fallback_answer, capabilities, main_calls, pipeline>>

\* Lines 538-540.
MainCreatePipelineRole ==
  /\ pc = "create_pipeline_role"
  /\ \E fault \in RoleFaults :
       \E o \in {PipelineRoleOutcome(PipelineRoleName, fault, iam_roles)} :
         /\ iam_roles' = o.roles
         /\ pipeline_role_arn' = o.arn
         /\ pc' = IF o.exits THEN "exit(1)" ELSE "ask_create_role"
  /\ main_calls' = Append(main_calls,
                          MainCall("create_pipeline_role", RoleArn(PipelineRoleName)))
  /\ UNCHANGED <<callvars, phase, previous, iam_attached, cf_role_name, cf_role_arn,
                 role_type, template_text, create_admin_role, fallback_answer,
                 capabilities, pipeline>>

\* What the operator may type as an existing role ARN.
ExistingArns ==
  {[kind |-> "Input", role |-> ""], [kind |-> "Input", role |-> "existing-role"]}

\* Lines 543-546 and 592-593: a new execution role, or the ARN of an existing
\* one as typed.
MainAskCreateRole ==
  /\ pc = "ask_create_role"
  /\ \E create_cf_role_input \in Answers :
       IF Lower(create_cf_role_input) = "y"
       THEN /\ pc' = "role_type"
            /\ cf_role_arn' = None
       ELSE /\ pc' = "capabilities"
            /\ \E arn \in ExistingArns : cf_role_arn' = arn
  /\ UNCHANGED <<callvars, iam_roles, phase, previous, iam_attached, pipeline_role_arn,
                 cf_role_name, role_type, template_text, create_admin_role,
                 fallback_answer, capabilities, main_calls, pipeline>>

\* What the operator may type at a 1/2 prompt.
Options == {"1", "2", "3"}

\* Lines 547-553 and 587-588: the role type; type 1 creates the admin role.
MainRoleType ==
  /\ pc = "role_type"
  /\ \E option \in Options, name \in RoleNames :
       /\ role_type' = option
       /\ cf_role_name' = name
       /\ IF option = "1"
          THEN create_cloudformation_role(name)
          ELSE /\ pc' = IF option = "2" THEN "template_source" ELSE "capabilities"
               /\ UNCHANGED <<iam_roles, iam_attached, cf_role_arn, main_calls>>
  /\ UNCHANGED <<callvars, phase, previous, pipeline_role_arn, template_text,
                 create_admin_role, fallback_answer, capabilities, pipeline>>

\* A template text as main holds it: None, the empty string, or a text.
EmptyText == [kind |-> "empty", content |-> [json |-> Raises, yaml |-> Raises]]
Text(content) == [kind |-> "text", content |-> content]
Texts == {EmptyText} \cup {Text(c) : c \in TemplateContents}

\* Lines 554-576: the template from a file (FileNotFoundError leaves None, any
\* other OSError of open is not caught), pasted, or neither.
MainReadTemplate ==
  /\ pc = "template_source"
  /\ \E template_source \in Options :
       CASE template_source = "1" ->
              \/ /\ template_text' = NoTemplate
                 /\ pc' = "analyze"
              \/ /\ template_text' = NoTemplate
                 /\ pc' = "traceback"
              \/ /\ \E t \in Texts : template_text' = t
                 /\ pc' = "analyze"
         [] template_source = "2" ->
              /\ \E t \in Texts : template_text' = t
              /\ pc' = "analyze"
         [] OTHER ->
              /\ template_text' = NoTemplate
              /\ pc' = "analyze"
  /\ UNCHANGED <<callvars, iam_roles, phase, previous, iam_attached, pipeline_role_arn,
                 cf_role_name, cf_role_arn, role_type, create_admin_role,
                 fallback_answer, capabilities, main_calls, pipeline>>

\* Lines 578-581: the scoped role, when there is a template text.
MainAnalyze ==
  /\ pc = "analyze"
  /\ IF TruthyText(template_text)
     THEN /\ \E env \in Environments :
               analyze_template_content_and_create_role(template_text.content,
                                                        cf_role_name, env)
          /\ cf_role_arn' = returned'
          /\ main_calls' = Append(main_calls,
                                  MainCall("analyze_template_content_and_create_role",
                                           RoleArn(cf_role_name)))
     ELSE UNCHANGED <<callvars, iam_roles, cf_role_arn, main_calls>>
  /\ pc' = "fallback"
  /\ UNCHANGED <<phase, previous, iam_attached, pipeline_role_arn, cf_role_name,
                 role_type, template_text, create_admin_role, fallback_answer,
                 capabilities, pipeline>>

\* The fallback taken unless the operator refuses it.
AdminFallbackTaken_Default(answer) == answer # "n"

\* Line 585: the fallback is taken on the answer y.
AdminFallbackTaken(answer) == answer = "y"

\* Lines 583-586: without a scoped role, the admin role if the operator says so.
MainFallback ==
  /\ pc = "fallback"
  /\ IF ~TruthyArn(cf_role_arn)
     THEN \E answer \in Answers :
            /\ fallback_answer' = answer
            /\ create_admin_role' = Lower(answer)
            /\ IF AdminFallbackTaken(Lower(answer))
               THEN create_cloudformation_role(cf_role_name)
               ELSE /\ pc' = "capabilities"
                    /\ UNCHANGED <<iam_roles, iam_attached, cf_role_arn, main_calls>>
     ELSE /\ pc' = "capabilities"
          /\ UNCHANGED <<iam_roles, iam_attached, cf_role_arn, main_calls,
                         fallback_answer, create_admin_role>>
  /\ UNCHANGED <<callvars, phase, previous, pipeline_role_arn, cf_role_name, role_type,
                 template_text, capabilities, pipeline>>

\* Lines 596-600: the capabilities and the artifact bucket; a ClientError of
\* create_bucket ends the program with sys.exit(1).
MainCapabilitiesAndBucket ==
  /\ pc = "capabilities"
  /\ \E iam_confirm \in Answers :
       capabilities' = IF Lower(iam_confirm) = "y"
                       THEN <<"CAPABILITY_IAM", "CAPABILITY_NAMED_IAM">> ELSE <<>>
  /\ \E bucketError \in BOOLEAN : pc' = IF bucketError THEN "exit(1)" ELSE "confirm"
  /\ main_calls' = Append(main_calls, MainCall("create_artifact_bucket", None))
  /\ UNCHANGED <<callvars, iam_roles, phase, previous, iam_attached, pipeline_role_arn,
                 cf_role_name, cf_role_arn, role_type, template_text, create_admin_role,
                 fallback_answer, pipeline>>

\* What create_pipeline does with the definition: the client refuses a RoleArn
\* that is no str before anything is sent (ParamValidationError, which main
\* does not catch); otherwise the service creates the pipeline or answers with
\* a ClientError.
PipelineOutcomes(arn) ==
  IF arn.kind = "None" THEN {"traceback"} ELSE {"created", "exit(1)"}

\* Lines 627-718: the deployment, if confirmed.
MainConfirm ==
  /\ pc = "confirm"
  /\ \E confirm \in Answers :
       IF Lower(confirm) = "y"
       THEN /\ main_calls' = Append(main_calls, MainCall("create_pipeline", cf_role_arn))
            /\ \E outcome \in PipelineOutcomes(cf_role_arn) :
                 IF outcome = "created"
                 THEN \E start_confirm \in Answers, startError \in BOOLEAN :
                        /\ pipeline' = [exists |-> TRUE, roleArn |-> pipeline_role_arn,
                                        RoleArn |-> cf_role_arn,
                                        Capabilities |-> capabilities,
                                        started |-> Lower(start_confirm) = "y"
                                                      /\ ~startError]
                        /\ pc' = IF Lower(start_confirm) = "y" /\ startError
                                 THEN "exit(1)" ELSE "done"
                 ELSE /\ pc' = outcome
                      /\ UNCHANGED pipeline
       ELSE /\ pc' = "done"
            /\ UNCHANGED <<main_calls, pipeline>>
  /\ UNCHANGED <<callvars, iam_roles, phase, previous, iam_attached, pipeline_role_arn,
                 cf_role_name, cf_role_arn, role_type, template_text, create_admin_role,
                 fallback_answer, capabilities>>

InitMain ==
  /\ pc = "start"
  /\ iam_attached = [n \in MainRoleNames |-> {}]
  /\ MainLocalsUnset
  /\ globals = [mapping |-> CFN_RESOURCE_TO_IAM_MAPPING,
                cloudformation |-> CLOUDFORMATION_PERMISSIONS,
                pipeline |-> PIPELINE_PERMISSIONS]
  /\ iam_roles = [n \in MainRoleNames |-> NoRole]
  /\ phase = "start"
  /\ template_content = [json |-> Raises, yaml |-> Raises]
  /\ role_name = ""
  /\ resource_types = Unbound
  /\ needed_permissions = Unbound
  /\ stdout = <<>>
  /\ parser_calls = <<>>
  /\ iam_calls = <<>>
  /\ returned = None
  /\ previous = [template_content |-> [json |-> Raises, yaml |-> Raises],
                 needed_permissions |-> Unbound]

NextMain ==
  \/ MainStart
  \/ MainCreatePipelineRole
  \/ MainAskCreateRole
  \/ MainRoleType
  \/ MainReadTemplate
  \/ MainAnalyze
  \/ MainFallback
  \/ MainCapabilitiesAndBucket
  \/ MainConfirm

SpecMain == InitMain /\ [][NextMain]_vars



(***************************************************************************)
(* Properties.                                                             *)
(***************************************************************************)
Called == phase # "start"

\* The template a text denotes: its JSON reading, else its YAML reading.
Parses(content) == content.json.ok \/ content.yaml.ok
DocumentOf(content) == IF content.json.ok THEN content.json.value ELSE content.yaml.value
DeclaredItems(content) ==
  IF DocumentOf(content).kind = "mapping" /\ DocumentOf(content).resources = "mapping"
  THEN DocumentOf(content).items ELSE <<>>

\* A template of the data model: a mapping whose Resources, if any, map names
\* to records whose Type, if any, is a string.
WellFormed(content) ==
  /\ Parses(content)
  /\ DocumentOf(content).kind = "mapping"
  /\ DocumentOf(content).resources \in {"absent", "mapping"}
  /\ \A i \in DOMAIN DeclaredItems(content) :
       /\ DeclaredItems(content)[i].kind = "record"
       /\ DeclaredItems(content)[i].Type # NumberType

\* The resource types a template declares.
DeclaredTypes(content) ==
  {DeclaredItems(content)[i].Type : i \in DOMAIN DeclaredItems(content)} \cap TypeStrings

\* A template with at least one resource that has a Type.
Valid(content) == WellFormed(content) /\ DeclaredTypes(content) # {}

TableKeys == DOMAIN CFN_RESOURCE_TO_IAM_MAPPING

ExpectedPermissions(types) ==
  SetOf(CLOUDFORMATION_PERMISSIONS) \cup SetOf(PIPELINE_PERMISSIONS)
  \cup UNION {SetOf(CFN_RESOURCE_TO_IAM_MAPPING[t]) : t \in types \cap TableKeys}

\* The Action lists of the inline policies of the role the last call names.
AttachedActions ==
  {q.PolicyDocument.Statement[1].Action :
     q \in {p \in iam_roles[role_name].policies : p.PolicyName = PolicyName(role_name)}}

NoIamCall == iam_calls = <<>>

StdoutIs(msgs) ==
  /\ Len(stdout) = Len(msgs)
  /\ \A i \in DOMAIN msgs : stdout[i].msg = msgs[i]

Wrote(msg) == \E i \in DOMAIN stdout : stdout[i].msg = msg

\* C1: for every template that parses and declares at least one resource with
\* a Type, the call computes a permission set, and the set it computes is
\* exactly the two baseline lists united with the table's lists of the declared
\* types that are keys of the table; the policy it attaches carries that set.
C1_PermissionSetExact ==
  Called =>
    /\ Valid(template_content) => needed_permissions.bound
    /\ needed_permissions.bound =>
         needed_permissions.val = ExpectedPermissions(DeclaredTypes(template_content))
    /\ returned.kind = "Arn" =>
         \A a \in AttachedActions :
           SetOf(a) = ExpectedPermissions(DeclaredTypes(template_content))

C1_Witness ==
  /\ Called
  /\ returned.kind = "Arn"
  /\ DeclaredTypes(template_content) = {"AWS::S3::Bucket", "AWS::Lambda::Function"}
  /\ AttachedActions # {}

\* C2: for every valid template both baseline lists are contained in the
\* permission set, whether the declared types are keys of the table or not.
C2_BaselineAlwaysPresent ==
  (Called /\ Valid(template_content)) =>
    /\ needed_permissions.bound
    /\ SetOf(CLOUDFORMATION_PERMISSIONS) \subseteq needed_permissions.val
    /\ SetOf(PIPELINE_PERMISSIONS) \subseteq needed_permissions.val

C2_Witness ==
  /\ Called
  /\ Valid(template_content)
  /\ DeclaredTypes(template_content) = {"AWS::EC2::VPC"}
  /\ needed_permissions.bound

\* A template with zero resource declarations: no Resources, an empty
\* Resources mapping, or only records without a Type.
ZeroDeclarations(content) == WellFormed(content) /\ DeclaredTypes(content) = {}

\* C3: a call on a template with zero resource declarations reports "No
\* resources found", returns None, computes no permission set and makes no IAM
\* call.
C3_EmptyTemplateFails ==
  (Called /\ ZeroDeclarations(template_content)) =>
    /\ returned = None
    /\ StdoutIs(<<"Analyzing CloudFormation template content",
                  "No resources found in template.">>)
    /\ ~needed_permissions.bound
    /\ NoIamCall
    /\ phase = "once" => \A n \in RoleNames : ~iam_roles[n].exists

C3_Witness ==
  /\ Called
  /\ ZeroDeclarations(template_content)
  /\ Len(DeclaredItems(template_content)) = 2
  /\ DeclaredItems(template_content)[1].Type = NoType
  /\ DeclaredItems(template_content)[2].Type = EmptyType
  /\ Wrote("No resources found in template.")

\* C4: json.loads is tried first and yaml.safe_load only when it raises; a text
\* neither parser accepts ends the call with "Error parsing template content",
\* None, nothing extracted and no IAM call, and only such a text does.
C4_ParseOrderAndFailure ==
  Called =>
    /\ parser_calls # <<>> /\ parser_calls[1] = "json.loads"
    /\ ("yaml.safe_load" \in SetOf(parser_calls)) <=> ~template_content.json.ok
    /\ ~Parses(template_content) =>
         /\ returned = None
         /\ StdoutIs(<<"Analyzing CloudFormation template content",
                       "Error parsing template content">>)
         /\ ~resource_types.bound /\ ~needed_permissions.bound
         /\ NoIamCall
         /\ phase = "once" => \A n \in RoleNames : ~iam_roles[n].exists
    /\ Parses(template_content) => ~Wrote("Error parsing template content")

C4_Witness ==
  /\ Called
  /\ ~Parses(template_content)
  /\ Wrote("Error parsing template content")

(***************************************************************************)
(* Unknown types, output shape.                                            *)
(***************************************************************************)
UnmappedDeclared(content) == DeclaredTypes(content) \ TableKeys

\* The strings the value returned to the caller carries.
ReturnedStrings == IF returned.kind = "Arn" THEN {returned.role} ELSE {}

WarningLines ==
  {i \in DOMAIN stdout : stdout[i].msg = "Warning: No permission mapping for resource type"}

\* C5 as stated: with a known and an unmapped type the call yields the known
\* type's permissions plus the baseline and hands the unmapped type back to the
\* caller in its return value.
C5_UnknownTypesReturned ==
  (Called /\ Valid(template_content)
     /\ UnmappedDeclared(template_content) # {}
     /\ DeclaredTypes(template_content) \cap TableKeys # {}) =>
    /\ needed_permissions.bound
    /\ needed_permissions.val = ExpectedPermissions(DeclaredTypes(template_content))
    /\ UnmappedDeclared(template_content) \subseteq ReturnedStrings

\* C5, amended: a valid template with an unmapped type resolves: the permission
\* set is the baseline plus the known types' permissions, the unmapped types are
\* named in a warning written to stdout (and only then is a warning written),
\* the call is not aborted but goes on to create the role, and it returns the
\* role's ARN unless the IAM client raises.
C5_UnknownTypeTolerated ==
  (Called /\ Valid(template_content)) =>
    /\ needed_permissions.bound
    /\ needed_permissions.val =
         ExpectedPermissions(DeclaredTypes(template_content) \cap TableKeys)
    /\ IF UnmappedDeclared(template_content) = {} THEN WarningLines = {}
       ELSE \E i \in WarningLines :
              stdout[i].items = UnmappedDeclared(template_content)
    /\ ~Wrote("Error analyzing template")
    /\ ~NoIamCall
    /\ returned.kind = "Arn" \/ Wrote("Error creating execution role")

C5_Witness ==
  /\ Called
  /\ DeclaredTypes(template_content) = {"AWS::Lambda::Function", "AWS::EC2::VPC"}
  /\ returned.kind = "Arn"
  /\ \E i \in WarningLines : stdout[i].items = {"AWS::EC2::VPC"}

Rank(p) == CHOOSE i \in DOMAIN StrOrder : StrOrder[i] = p
Ascending(list) == \A i \in 1..(Len(list) - 1) : Rank(list[i]) < Rank(list[i + 1])
NoDuplicates(list) == \A i, j \in DOMAIN list : list[i] = list[j] => i = j

RequiredLines == {i \in DOMAIN stdout : stdout[i].msg = "Required permissions"}

\* C6 as stated: the Action list handed to the role-management step is sorted
\* and has no duplicates.
C6_ActionListSorted ==
  (Called /\ returned.kind = "Arn") =>
    \A a \in AttachedActions : Ascending(a) /\ NoDuplicates(a)

\* C6, amended: the Action list handed to the role-management step holds every
\* permission of the set exactly once, in the iteration order of the set, which
\* need not be sorted; the sorted sequence is the one written to stdout as
\* "Required permissions".
C6_ActionListShape ==
  Called =>
    /\ returned.kind = "Arn" =>
         /\ AttachedActions # {}
         /\ \A a \in AttachedActions :
              /\ NoDuplicates(a)
              /\ SetOf(a) = needed_permissions.val
    /\ needed_permissions.bound =>
         /\ Cardinality(RequiredLines) = 1
         /\ \A i \in RequiredLines :
              /\ Ascending(stdout[i].list)
              /\ SetOf(stdout[i].list) = needed_permissions.val

C6_Witness ==
  /\ Called
  /\ returned.kind = "Arn"
  /\ DeclaredTypes(template_content) = {"AWS::S3::Bucket"}
  /\ \E a \in AttachedActions :
       /\ ~Ascending(a)
       /\ Cardinality({i \in DOMAIN a : a[i] = "s3:GetObject"}) = 1

(***************************************************************************)
(* Two calls.                                                              *)
(***************************************************************************)
SameDocumentBut(c1, c2) ==
  /\ c1.json.ok = c2.json.ok /\ c1.yaml.ok = c2.yaml.ok
  /\ DocumentOf(c1).kind = DocumentOf(c2).kind
  /\ DocumentOf(c1).resources = DocumentOf(c2).resources

\* c2 declares the resources of c1 in another order.
Permuted(c1, c2) ==
  /\ SameDocumentBut(c1, c2)
  /\ Len(DeclaredItems(c1)) = Len(DeclaredItems(c2))
  /\ \E p \in Injections(Len(DeclaredItems(c1))) :
       \A i \in DOMAIN DeclaredItems(c1) :
         DeclaredItems(c2)[i] = DeclaredItems(c1)[p[i]]

\* c1 and c2 declare the same resources, any number of times each.
SameDeclarations(c1, c2) ==
  /\ SameDocumentBut(c1, c2)
  /\ SetOf(DeclaredItems(c1)) = SetOf(DeclaredItems(c2))

\* C7: a call on a template and a call on the same template with its resource
\* declarations permuted compute the same permission set.
C7_OrderIndependent ==
  (phase = "twice" /\ Permuted(previous.template_content, template_content)) =>
    previous.needed_permissions = needed_permissions

C7_Witness ==
  /\ phase = "twice"
  /\ Permuted(previous.template_content, template_content)
  /\ DeclaredItems(previous.template_content) # DeclaredItems(template_content)
  /\ DeclaredTypes(template_content) = {"AWS::S3::Bucket", "AWS::Lambda::Function"}
  /\ needed_permissions.bound

\* C8: a template that declares resources of one type several times yields the
\* same permission set as the template that declares it once.
C8_DuplicateTypesCollapse ==
  (phase = "twice" /\ SameDeclarations(previous.template_content, template_content)) =>
    previous.needed_permissions = needed_permissions

C8_Witness ==
  /\ phase = "twice"
  /\ SameDeclarations(previous.template_content, template_content)
  /\ Len(DeclaredItems(previous.template_content)) = 2
  /\ Len(DeclaredItems(template_content)) = 1
  /\ DeclaredTypes(template_content) = {"AWS::Lambda::Function"}
  /\ needed_permissions.bound

\* C9: two calls on the same template compute the same permission set, whatever
\* the first call left behind in IAM, and no call changes the module-level
\* table and lists.
C9_Idempotent ==
  /\ (phase = "twice" /\ previous.template_content = template_content) =>
       previous.needed_permissions = needed_permissions
  /\ globals = [mapping |-> CFN_RESOURCE_TO_IAM_MAPPING,
                cloudformation |-> CLOUDFORMATION_PERMISSIONS,
                pipeline |-> PIPELINE_PERMISSIONS]

C9_Witness ==
  /\ phase = "twice"
  /\ previous.template_content = template_content
  /\ needed_permissions.bound
  /\ DeclaredTypes(template_content) = {"AWS::S3::Bucket", "AWS::EC2::VPC"}
  /\ iam_roles[role_name].policies # {}
  /\ returned = None

(***************************************************************************)
(* Effects.                                                                *)
(***************************************************************************)
\* C10 as stated: computing the permission set involves no call of the
\* role-management service.
C10_NoExternalCall ==
  (Called /\ needed_permissions.bound) => NoIamCall

\* C10, amended: the function that computes the permission set calls the IAM
\* client itself, but only after the set is computed: for a template that does
\* not parse, declares no resource or is malformed it makes no IAM call and
\* creates no role; for a valid template it calls create_role for role_name and,
\* when that succeeds, put_role_policy for role_name, and nothing else.
C10_IamCallsFollowResolution ==
  Called =>
    /\ ~Valid(template_content) =>
         /\ NoIamCall
         /\ ~needed_permissions.bound
         /\ phase = "once" => \A n \in RoleNames : ~iam_roles[n].exists
    /\ Valid(template_content) =>
         /\ needed_permissions.bound
         /\ Len(iam_calls) \in {1, 2}
         /\ iam_calls[1].api = "create_role"
         /\ \A i \in DOMAIN iam_calls : iam_calls[i].RoleName = role_name
         /\ Len(iam_calls) = 1 <=> ~iam_calls[1].ok
         /\ Len(iam_calls) = 2 => iam_calls[2].api = "put_role_policy"

C10_Witness ==
  /\ Called
  /\ Valid(template_content)
  /\ Len(iam_calls) = 2
  /\ iam_calls[2].ok
  /\ iam_roles[role_name].exists
  /\ Wrote("Required permissions")

(***************************************************************************)
(* Failures, and the policy of a created role.                             *)
(***************************************************************************)
FailureLines ==
  {"Error parsing template content", "No resources found in template.",
   "Error analyzing template", "Error creating execution role"}

\* A text that parses to something that is no template of the data model: no
\* mapping, a Resources value that is no mapping, an entry that is no record,
\* a Type that is no string.
Malformed(content) == Parses(content) /\ ~WellFormed(content)

\* C11 as stated: a call that fails to resolve a permission set reports a
\* parse failure or an empty template, also for malformed input.
C11_OnlyTwoErrorKinds ==
  (Called /\ ~needed_permissions.bound) =>
    \/ Wrote("Error parsing template content")
    \/ Wrote("No resources found in template.")

\* C11, amended: every failure returns None and is reported on stdout as
\* exactly one of four kinds: the parse failure (neither parser accepts the
\* text), the empty template (no resource declarations), "Error analyzing
\* template" for malformed input, which is not turned into either of the first
\* two, and "Error creating execution role" when the IAM client raises after a
\* successful resolution.
C11_FailureKinds ==
  Called =>
    /\ returned = None <=> stdout[Len(stdout)].msg \in FailureLines
    /\ Cardinality({i \in DOMAIN stdout : stdout[i].msg \in FailureLines}) <= 1
    /\ Wrote("Error parsing template content") <=> ~Parses(template_content)
    /\ Wrote("No resources found in template.") <=> ZeroDeclarations(template_content)
    /\ Wrote("Error analyzing template") <=> Malformed(template_content)
    /\ Wrote("Error creating execution role") =>
         Valid(template_content) /\ needed_permissions.bound /\ ~NoIamCall
    /\ Malformed(template_content) => ~needed_permissions.bound /\ NoIamCall

C11_Witness ==
  /\ Called
  /\ DocumentOf(template_content).kind = "mapping"
  /\ DocumentOf(template_content).resources = "nonmapping"
  /\ returned = None
  /\ StdoutIs(<<"Analyzing CloudFormation template content",
                "Error analyzing template">>)

\* C12: when the call returns the role's ARN, the role role_name exists and
\* has exactly one inline policy, named role_name + "Policy", whose document
\* has exactly one statement, with Effect Allow, Resource "*" and an Action
\* list whose elements are exactly the resolved permission set.
C12_PolicyDocument ==
  (Called /\ returned.kind = "Arn") =>
    /\ returned.role = role_name
    /\ iam_roles[role_name].exists
    /\ Cardinality(iam_roles[role_name].policies) = 1
    /\ \A q \in iam_roles[role_name].policies :
         /\ q.PolicyName = role_name \o "Policy"
         /\ Len(q.PolicyDocument.Statement) = 1
         /\ q.PolicyDocument.Statement[1].Effect = "Allow"
         /\ q.PolicyDocument.Statement[1].Resource = "*"
         /\ SetOf(q.PolicyDocument.Statement[1].Action) = needed_permissions.val
         /\ needed_permissions.val = ExpectedPermissions(DeclaredTypes(template_content))

C12_Witness ==
  /\ Called
  /\ returned = RoleArn("CloudFormation-a")
  /\ DeclaredTypes(template_content) = {"AWS::Lambda::Function"}
  /\ \E q \in iam_roles["CloudFormation-a"].policies :
       q.PolicyName = "CloudFormation-aPolicy"

(***************************************************************************)
(* main: the execution role handed to the pipeline.                        *)
(***************************************************************************)
\* main has called fn at some point.
MainCalled(fn) == \E i \in 1..Len(main_calls) : main_calls[i].fn = fn

\* Some role holds the AdministratorAccess managed policy.
AdminRoleExists ==
  \E n \in DOMAIN iam_attached : AdministratorAccess \in iam_attached[n]

\* No scoped role ARN was obtained: there was no template text to analyze
\* (unreadable file, empty text, invalid source option) or the analysis
\* returned None.
NoScopedRole == ~TruthyText(template_text) \/ returned = None

\* C13: on the minimum-permissions path (role type 2) the admin role is
\* requested and created only if no scoped role ARN was obtained and the
\* operator answered y to the fallback prompt (main lowers the answer before
\* comparing it, line 584, as it does at each of its y/n prompts); after any
\* other answer create_cloudformation_role is never called and no role holds
\* AdministratorAccess.
C13_AdminFallbackOnlyOnYes ==
  role_type = "2" =>
    /\ (MainCalled("create_cloudformation_role") \/ AdminRoleExists) =>
         /\ pc \notin {"template_source", "analyze", "fallback"}
         /\ NoScopedRole
         /\ Lower(fallback_answer) = "y"
         /\ create_admin_role = "y"
    /\ (pc \in {"capabilities", "confirm", "done", "traceback"}
          /\ NoScopedRole /\ create_admin_role # "y") =>
         /\ ~AdminRoleExists
         /\ cf_role_arn = None

\* The fallback was offered after a failed analysis, accepted, and the admin
\* role was created.
C13_Witness ==
  /\ role_type = "2"
  /\ TruthyText(template_text)
  /\ returned = None
  /\ create_admin_role = "y"
  /\ AdministratorAccess \in iam_attached[cf_role_name]
  /\ cf_role_arn = RoleArn(cf_role_name)

\* C14: whenever main invokes create_pipeline, the RoleArn of the Deploy
\* action is a role ARN and never None.
C14_PipelineRoleArnDefined ==
  \A i \in 1..Len(main_calls) :
    main_calls[i].fn = "create_pipeline" => main_calls[i].arg # None

\* C15: whenever analyze_template_content_and_create_role has returned None
\* to main, no role named role_name exists, so that the admin fallback can
\* create one of that name.
C15_FailureLeavesIamUnchanged ==
  (pc = "fallback" /\ TruthyText(template_text) /\ returned = None) =>
    ~iam_roles[cf_role_name].exists

====
